---- MODULE Spec2Model ----
(***************************************************************************)
(* Model of the Modbus TCP bridge of src/src/main.rs: the shared           *)
(* register/coil store behind one std::sync::Mutex, the per-connection     *)
(* ModbusService::call handler, the simulation_loop task and main.         *)
(*                                                                         *)
(* Reals are fixed point: a model output x is the integer 1000 * x.        *)
(***************************************************************************)
EXTENDS Integers, Sequences, FiniteSets, TLC

(***************************************************************************)
(* Bounds of the model.                                                    *)
(***************************************************************************)
NumConns == 2
MaxCount == 2

(***************************************************************************)
(* Program constants.                                                      *)
(***************************************************************************)
U16Max == 65535
temperature_address == 40001
heater_state_address == 40002
SeedTemperature == 25000
HeaterCoil == 0

Conns == 1..NumConns

\* Inputs the transport can deliver.
Counts == 1..MaxCount
RegisterAddrs == {temperature_address, U16Max}
InputAddrs == {U16Max}
CoilAddrs == {HeaterCoil, U16Max}
CoilWriteAddrs == {HeaterCoil}
RunValue(k) == 5 + 2 * k
ReqVals == {RunValue(1), RunValue(2)}
\* The value sequences of a WriteMultipleRegisters request.
WriteRuns == {[k \in 1..n |-> RunValue(k)] : n \in Counts}
\* Outputs the process model can report, in thousandths.
Temperatures == {293156}
HeaterStatuses == {0, 1000}

\* Outputs of one state of a process model whose two outputs go together:
\* <<temperature, heaterStatus>>, in thousandths.
ModelOutputs == {<<273150, 0>>, <<293156, 1000>>}

ReadKinds == {"ReadHoldingRegisters", "ReadInputRegisters", "ReadCoils"}
SupportedKinds ==
    ReadKinds \cup {"WriteSingleRegister", "WriteMultipleRegisters", "WriteSingleCoil"}
UnsupportedKinds == {"ReadDiscreteInputs", "WriteMultipleCoils"}

ReadAddrs(k) ==
    CASE k = "ReadHoldingRegisters" -> RegisterAddrs
      [] k = "ReadInputRegisters" -> InputAddrs
      [] k = "ReadCoils" -> CoilAddrs

NoReq == [kind |-> "None"]
NoResp == [kind |-> "None"]
NoLock == <<"none", 0>>
ConnLock(c) == <<"conn", c>>
SimLock == <<"sim", 0>>

(***************************************************************************)
(* HashMap<u16, _>: a function on the set of inserted keys.                *)
(***************************************************************************)
EmptyMap == <<>>

MapInsert(m, k, v) == [x \in (DOMAIN m) \cup {k} |-> IF x = k THEN v ELSE m[x]]

\* map.get(&k).copied().unwrap_or(d)
GetOr(m, k, d) == IF k \in DOMAIN m THEN m[k] ELSE d

(***************************************************************************)
(* u16 addition addr + i: it overflows past 65535; a build with overflow   *)
(* checks panics there, a build without them wraps.                        *)
(***************************************************************************)
Overflows(a, b) == a + b > U16Max

WrappingAdd(a, b) == (a + b) % (U16Max + 1)

\* Mutant: the output is cast without the factor 100.
ScaleToU16Unscaled(milli) ==
    IF milli <= 0 THEN 0
    ELSE IF milli \div 1000 > U16Max THEN U16Max
    ELSE milli \div 1000

(***************************************************************************)
(* (x * 100.0) as u16 of a model output x, given as 1000 * x: the product  *)
(* truncated toward zero and saturated to 0..65535.                        *)
(***************************************************************************)
ScaleToU16(milli) ==
    IF milli <= 0 THEN 0
    ELSE IF milli \div 10 > U16Max THEN U16Max
    ELSE milli \div 10

VARIABLES
    main_pc,            \* position of main
    overflow_checks,    \* whether the build panics on integer overflow
    holding_registers,  \* SharedState.holding_registers
    input_registers,    \* SharedState.input_registers
    coils,              \* SharedState.coils
    lock,               \* owner of the Mutex<SharedState>
    poisoned,           \* the mutex was held by a task that panicked
    conn_pc,            \* per connection: position of its handler
    req,                \* per connection: the request being handled
    idx,                \* per connection: loop index i
    values,             \* per connection: the Vec of values read so far
    resp,               \* per connection: the result built by call
    sim_pc,             \* position of simulation_loop
    sim_panic,          \* the message simulation_loop panicked with
    heater_on,          \* simulation_loop local
    temperature,        \* simulation_loop local, thousandths
    heater_status,      \* simulation_loop local, thousandths
    model_heaterOn      \* the component's heaterOn input

store == <<holding_registers, input_registers, coils>>
mutex == <<lock, poisoned>>
connv == <<conn_pc, req, idx, values, resp>>
simv == <<sim_pc, sim_panic, heater_on, temperature, heater_status, model_heaterOn>>
vars == <<main_pc, overflow_checks, store, mutex, connv, simv>>

Running == main_pc # "exited"

Init ==
    /\ main_pc = "seed"
    /\ overflow_checks \in BOOLEAN
    /\ holding_registers = EmptyMap
    /\ input_registers = EmptyMap
    /\ coils = EmptyMap
    /\ lock = NoLock
    /\ poisoned = FALSE
    /\ conn_pc = [c \in Conns |-> "closed"]
    /\ req = [c \in Conns |-> NoReq]
    /\ idx = [c \in Conns |-> 0]
    /\ values = [c \in Conns |-> <<>>]
    /\ resp = [c \in Conns |-> NoResp]
    /\ sim_pc = "unspawned"
    /\ sim_panic = "none"
    /\ heater_on = FALSE
    /\ temperature = 0
    /\ heater_status = 0
    /\ model_heaterOn = FALSE

(***************************************************************************)
(* main                                                                    *)
(***************************************************************************)
\* The seed block: three inserts under one lock, before any other task exists.
SeedStore ==
    /\ main_pc = "seed"
    /\ lock = NoLock
    /\ holding_registers' =
           MapInsert(MapInsert(holding_registers, temperature_address, SeedTemperature),
                     heater_state_address, 0)
    /\ coils' = MapInsert(coils, HeaterCoil, FALSE)
    /\ main_pc' = "spawn"
    /\ UNCHANGED <<overflow_checks, input_registers, mutex, connv, simv>>

\* Mutant: the simulation task is spawned ahead of the seed block.
SpawnSimulationBeforeSeed ==
    /\ main_pc = "seed"
    /\ sim_pc = "unspawned"
    /\ sim_pc' = "new"
    /\ UNCHANGED <<main_pc, overflow_checks, store, mutex, connv, sim_panic, heater_on,
                   temperature, heater_status, model_heaterOn>>

\* tokio::spawn(simulation_loop(..)), after the seed block.
SpawnSimulation ==
    /\ main_pc = "spawn"
    /\ sim_pc' = "new"
    /\ main_pc' = "bind"
    /\ UNCHANGED <<overflow_checks, store, mutex, connv, sim_panic, heater_on,
                   temperature, heater_status, model_heaterOn>>

\* TcpListener::bind(socket_addr).await? : main returns the error, the process ends.
Bind ==
    /\ main_pc = "bind"
    /\ main_pc' \in {"serving", "exited"}
    /\ UNCHANGED <<overflow_checks, store, mutex, connv, simv>>

\* The closure given to serve: a new ModbusService over the shared state.
Accept(c) ==
    /\ main_pc = "serving"
    /\ conn_pc[c] = "closed"
    /\ conn_pc' = [conn_pc EXCEPT ![c] = "idle"]
    /\ UNCHANGED <<main_pc, overflow_checks, store, mutex, req, idx, values, resp, simv>>

\* A connection error: reported by the error closure, the connection is gone.
Disconnect(c) ==
    /\ main_pc = "serving"
    /\ conn_pc[c] = "idle"
    /\ conn_pc' = [conn_pc EXCEPT ![c] = "closed"]
    /\ UNCHANGED <<main_pc, overflow_checks, store, mutex, req, idx, values, resp, simv>>

(***************************************************************************)
(* The mutex                                                               *)
(***************************************************************************)
\* Mutant: the store is not guarded, lock() returns at once.
LockFreeUnguarded == TRUE

\* state.lock() returns only once no other task holds the mutex.
LockFree == lock = NoLock

\* The map a read request reads, and the default of a missing key.
ReadMap(kind) ==
    CASE kind = "ReadHoldingRegisters" -> holding_registers
      [] kind = "ReadInputRegisters" -> input_registers
      [] kind = "ReadCoils" -> coils

ReadDefault(kind) == IF kind = "ReadCoils" THEN FALSE ELSE 0

(***************************************************************************)
(* Requests                                                                *)
(***************************************************************************)
ReadRequest(k, a, n) == [kind |-> k, addr |-> a, count |-> n]
WriteSingleRegisterRequest(a, v) == [kind |-> "WriteSingleRegister", addr |-> a, value |-> v]
WriteMultipleRegistersRequest(a, vs) ==
    [kind |-> "WriteMultipleRegisters", addr |-> a, values |-> vs]
WriteSingleCoilRequest(a, b) == [kind |-> "WriteSingleCoil", addr |-> a, value |-> b]
UnsupportedRequest(k) == [kind |-> k]

(***************************************************************************)
(* Responses                                                               *)
(***************************************************************************)
ReadResponse(k, vs) == [kind |-> k, values |-> vs]
WriteSingleRegisterResponse(a, v) == [kind |-> "WriteSingleRegister", addr |-> a, value |-> v]
WriteSingleCoilResponse(a, b) == [kind |-> "WriteSingleCoil", addr |-> a, value |-> b]
IllegalFunction == [kind |-> "Exception", exception |-> "IllegalFunction"]

(***************************************************************************)
(* ModbusService::call                                                     *)
(***************************************************************************)
\* A handler that takes the lock: state.lock().unwrap() of a sound mutex.
Acquire(c, r) ==
    /\ Running
    /\ conn_pc[c] = "idle"
    /\ LockFree
    /\ ~poisoned
    /\ lock' = ConnLock(c)
    /\ req' = [req EXCEPT ![c] = r]

\* state.lock().unwrap() of a poisoned mutex: the handler panics, the guard
\* inside the error is dropped again; the connection's task ends and the
\* connection with it.
CallPoisoned(c) ==
    /\ Running
    /\ conn_pc[c] = "idle"
    /\ LockFree
    /\ poisoned
    /\ conn_pc' = [conn_pc EXCEPT ![c] = "closed"]
    /\ UNCHANGED <<main_pc, overflow_checks, store, mutex, req, idx, values, resp, simv>>

\* A panic of the handler while it holds the guard: unwinding drops the
\* guard, which poisons the mutex; the connection's task ends and the
\* connection with it.
PanicLocked(c) ==
    /\ conn_pc' = [conn_pc EXCEPT ![c] = "closed"]
    /\ req' = [req EXCEPT ![c] = NoReq]
    /\ idx' = [idx EXCEPT ![c] = 0]
    /\ values' = [values EXCEPT ![c] = <<>>]
    /\ lock' = NoLock
    /\ poisoned' = TRUE

\* ReadHoldingRegisters / ReadInputRegisters / ReadCoils: lock, empty Vec.
CallRead(c, k, a, n) ==
    /\ Acquire(c, ReadRequest(k, a, n))
    /\ conn_pc' = [conn_pc EXCEPT ![c] = "read_loop"]
    /\ idx' = [idx EXCEPT ![c] = 0]
    /\ values' = [values EXCEPT ![c] = <<>>]
    /\ UNCHANGED <<main_pc, overflow_checks, store, poisoned, resp, simv>>

\* The value one iteration of a read loop pushes.
ReadValue(k, a, i) == GetOr(ReadMap(k), WrappingAdd(a, i), ReadDefault(k))

\* One iteration of for i in 0..count: addr + i, get, push.
ReadStep(c) ==
    /\ Running
    /\ conn_pc[c] = "read_loop"
    /\ idx[c] < req[c].count
    /\ IF Overflows(req[c].addr, idx[c]) /\ overflow_checks
       THEN /\ PanicLocked(c)
            /\ UNCHANGED <<main_pc, overflow_checks, store, resp, simv>>
       ELSE /\ values' = [values EXCEPT
                   ![c] = Append(@, ReadValue(req[c].kind, req[c].addr, idx[c]))]
            /\ idx' = [idx EXCEPT ![c] = @ + 1]
            /\ UNCHANGED <<main_pc, overflow_checks, store, mutex, conn_pc, req, resp, simv>>

\* After the loop: Ok(Response::Read...(values)), the guard still held.
ReadRespond(c) ==
    /\ Running
    /\ conn_pc[c] = "read_loop"
    /\ idx[c] = req[c].count
    /\ resp' = [resp EXCEPT ![c] = ReadResponse(req[c].kind, values[c])]
    /\ conn_pc' = [conn_pc EXCEPT ![c] = "built"]
    /\ UNCHANGED <<main_pc, overflow_checks, store, mutex, req, idx, values, simv>>

\* Mutant: the value goes into the input registers.
CallWriteSingleRegisterWrongMap(c, a, v) ==
    /\ Acquire(c, WriteSingleRegisterRequest(a, v))
    /\ input_registers' = MapInsert(input_registers, a, v)
    /\ resp' = [resp EXCEPT ![c] = WriteSingleRegisterResponse(a, v)]
    /\ conn_pc' = [conn_pc EXCEPT ![c] = "built"]
    /\ UNCHANGED <<main_pc, overflow_checks, holding_registers, coils, poisoned, idx,
                   values, simv>>

\* WriteSingleRegister: lock, insert, Ok(Response::WriteSingleRegister(addr, value)).
CallWriteSingleRegister(c, a, v) ==
    /\ Acquire(c, WriteSingleRegisterRequest(a, v))
    /\ holding_registers' = MapInsert(holding_registers, a, v)
    /\ resp' = [resp EXCEPT ![c] = WriteSingleRegisterResponse(a, v)]
    /\ conn_pc' = [conn_pc EXCEPT ![c] = "built"]
    /\ UNCHANGED <<main_pc, overflow_checks, input_registers, coils, poisoned, idx,
                   values, simv>>

\* WriteSingleCoil: lock, insert, Ok(Response::WriteSingleCoil(addr, value)).
CallWriteSingleCoil(c, a, b) ==
    /\ Acquire(c, WriteSingleCoilRequest(a, b))
    /\ coils' = MapInsert(coils, a, b)
    /\ resp' = [resp EXCEPT ![c] = WriteSingleCoilResponse(a, b)]
    /\ conn_pc' = [conn_pc EXCEPT ![c] = "built"]
    /\ UNCHANGED <<main_pc, overflow_checks, holding_registers, input_registers,
                   poisoned, idx, values, simv>>

\* WriteMultipleRegisters: lock, then the insert loop.
CallWriteMultipleRegisters(c, a, vs) ==
    /\ Acquire(c, WriteMultipleRegistersRequest(a, vs))
    /\ conn_pc' = [conn_pc EXCEPT ![c] = "write_loop"]
    /\ idx' = [idx EXCEPT ![c] = 0]
    /\ UNCHANGED <<main_pc, overflow_checks, store, poisoned, values, resp, simv>>

\* One iteration of for (i, value) in values.iter().enumerate(): insert at addr + i.
WriteStep(c) ==
    /\ Running
    /\ conn_pc[c] = "write_loop"
    /\ idx[c] < Len(req[c].values)
    /\ IF Overflows(req[c].addr, idx[c]) /\ overflow_checks
       THEN /\ PanicLocked(c)
            /\ UNCHANGED <<main_pc, overflow_checks, store, resp, simv>>
       ELSE /\ holding_registers' =
                   MapInsert(holding_registers, WrappingAdd(req[c].addr, idx[c]),
                             req[c].values[idx[c] + 1])
            /\ idx' = [idx EXCEPT ![c] = @ + 1]
            /\ UNCHANGED <<main_pc, overflow_checks, input_registers, coils, mutex,
                           conn_pc, req, values, resp, simv>>

\* Mutant: the result carries the last index instead of the length.
WriteMultipleRegistersResponseLastIndex(a, vs) ==
    [kind |-> "WriteMultipleRegisters", addr |-> a, count |-> Len(vs) - 1]

\* Ok(Response::WriteMultipleRegisters(addr, values.len() as u16))
WriteMultipleRegistersResponse(a, vs) ==
    [kind |-> "WriteMultipleRegisters", addr |-> a, count |-> Len(vs) % (U16Max + 1)]

\* After the loop: the result is built, the guard still held.
WriteRespond(c) ==
    /\ Running
    /\ conn_pc[c] = "write_loop"
    /\ idx[c] = Len(req[c].values)
    /\ resp' = [resp EXCEPT
           ![c] = WriteMultipleRegistersResponse(req[c].addr, req[c].values)]
    /\ conn_pc' = [conn_pc EXCEPT ![c] = "built"]
    /\ UNCHANGED <<main_pc, overflow_checks, store, mutex, req, idx, values, simv>>

\* Mutant: the catch-all arm answers with another exception.
CallUnsupportedOtherException(c, k) ==
    /\ Running
    /\ conn_pc[c] = "idle"
    /\ req' = [req EXCEPT ![c] = UnsupportedRequest(k)]
    /\ resp' = [resp EXCEPT ![c] = [kind |-> "Exception", exception |-> "IllegalDataAddress"]]
    /\ conn_pc' = [conn_pc EXCEPT ![c] = "built"]
    /\ UNCHANGED <<main_pc, overflow_checks, store, mutex, idx, values, simv>>

\* Any other request: Err(Exception::IllegalFunction), no lock taken.
CallUnsupported(c, k) ==
    /\ Running
    /\ conn_pc[c] = "idle"
    /\ req' = [req EXCEPT ![c] = UnsupportedRequest(k)]
    /\ resp' = [resp EXCEPT ![c] = IllegalFunction]
    /\ conn_pc' = [conn_pc EXCEPT ![c] = "built"]
    /\ UNCHANGED <<main_pc, overflow_checks, store, mutex, idx, values, simv>>

\* Mutant: the guard outlives the call.
ReturnKeepsGuard(c) ==
    /\ Running
    /\ conn_pc[c] = "built"
    /\ conn_pc' = [conn_pc EXCEPT ![c] = "idle"]
    /\ req' = [req EXCEPT ![c] = NoReq]
    /\ resp' = [resp EXCEPT ![c] = NoResp]
    /\ idx' = [idx EXCEPT ![c] = 0]
    /\ values' = [values EXCEPT ![c] = <<>>]
    /\ UNCHANGED <<main_pc, overflow_checks, store, mutex, simv>>

\* The match arm ends: the guard (if any) is dropped, the future completes
\* with the result, and the connection waits for its next request.
Return(c) ==
    /\ Running
    /\ conn_pc[c] = "built"
    /\ lock' = IF lock = ConnLock(c) THEN NoLock ELSE lock
    /\ conn_pc' = [conn_pc EXCEPT ![c] = "idle"]
    /\ req' = [req EXCEPT ![c] = NoReq]
    /\ resp' = [resp EXCEPT ![c] = NoResp]
    /\ idx' = [idx EXCEPT ![c] = 0]
    /\ values' = [values EXCEPT ![c] = <<>>]
    /\ UNCHANGED <<main_pc, overflow_checks, store, poisoned, simv>>

(***************************************************************************)
(* simulation_loop                                                         *)
(***************************************************************************)
\* Mutant: the failure is logged and the loop goes on with the next tick.
SimPanicSkipsTick(msg) ==
    /\ sim_pc' = "tick"
    /\ sim_panic' = msg
    /\ heater_on' = FALSE
    /\ temperature' = 0
    /\ heater_status' = 0

\* An expect() on an Err of the process model: the task panics with msg.
SimPanic(msg) ==
    /\ sim_pc' = "panicked"
    /\ sim_panic' = msg
    /\ heater_on' = FALSE
    /\ temperature' = 0
    /\ heater_status' = 0

\* SimpleThermalComponent::new().expect(..)
CreateComponent ==
    /\ Running
    /\ sim_pc = "new"
    /\ \/ /\ sim_pc' = "initialize"
          /\ UNCHANGED <<sim_panic, heater_on, temperature, heater_status>>
       \/ SimPanic("Failed to create thermal component")
    /\ UNCHANGED <<main_pc, overflow_checks, store, mutex, connv, model_heaterOn>>

\* component.initialize().expect(..)
InitializeComponent ==
    /\ Running
    /\ sim_pc = "initialize"
    /\ \/ /\ sim_pc' = "tick"
          /\ UNCHANGED <<sim_panic, heater_on, temperature, heater_status>>
       \/ SimPanic("Failed to initialize component")
    /\ UNCHANGED <<main_pc, overflow_checks, store, mutex, connv, model_heaterOn>>

\* Mutant: the guard of the coil read lives on to the end of the tick.
ReadHeaterCoilKeepsGuard ==
    /\ Running
    /\ sim_pc = "tick"
    /\ LockFree
    /\ IF poisoned
       THEN /\ SimPanic("PoisonError")
            /\ UNCHANGED lock
       ELSE /\ heater_on' = GetOr(coils, HeaterCoil, FALSE)
            /\ lock' = SimLock
            /\ sim_pc' = "set_bool_input"
            /\ UNCHANGED <<sim_panic, temperature, heater_status>>
    /\ UNCHANGED <<main_pc, overflow_checks, store, poisoned, connv, model_heaterOn>>

\* Mutant: the driver reads coil 1.
ReadHeaterCoilWrongAddress ==
    /\ Running
    /\ sim_pc = "tick"
    /\ LockFree
    /\ IF poisoned
       THEN /\ SimPanic("PoisonError")
       ELSE /\ heater_on' = GetOr(coils, HeaterCoil + 1, FALSE)
            /\ sim_pc' = "set_bool_input"
            /\ UNCHANGED <<sim_panic, temperature, heater_status>>
    /\ UNCHANGED <<main_pc, overflow_checks, store, mutex, connv, model_heaterOn>>

\* ticker.tick().await, then the first critical section: coil 0, default false.
ReadHeaterCoil ==
    /\ Running
    /\ sim_pc = "tick"
    /\ LockFree
    /\ IF poisoned
       THEN /\ SimPanic("PoisonError")
       ELSE /\ heater_on' = GetOr(coils, HeaterCoil, FALSE)
            /\ sim_pc' = "set_bool_input"
            /\ UNCHANGED <<sim_panic, temperature, heater_status>>
    /\ UNCHANGED <<main_pc, overflow_checks, store, mutex, connv, model_heaterOn>>

\* component.set_bool_input("heaterOn", heater_on).expect(..)
SetBoolInput ==
    /\ Running
    /\ sim_pc = "set_bool_input"
    /\ \/ /\ model_heaterOn' = heater_on
          /\ sim_pc' = "step"
          /\ UNCHANGED <<sim_panic, heater_on, temperature, heater_status>>
       \/ /\ SimPanic("Failed to set heater input")
          /\ UNCHANGED model_heaterOn
    /\ UNCHANGED <<main_pc, overflow_checks, store, mutex, connv>>

\* Mutant: after the step the loop goes straight to the publication.
StepComponentSkipsOutputs ==
    /\ Running
    /\ sim_pc = "step"
    /\ \/ /\ sim_pc' = "publish"
          /\ UNCHANGED <<sim_panic, heater_on, temperature, heater_status>>
       \/ SimPanic("Failed to step simulation")
    /\ UNCHANGED <<main_pc, overflow_checks, store, mutex, connv, model_heaterOn>>

\* component.step(dt).expect(..)
StepComponent ==
    /\ Running
    /\ sim_pc = "step"
    /\ \/ /\ sim_pc' = "get_temperature"
          /\ UNCHANGED <<sim_panic, heater_on, temperature, heater_status>>
       \/ SimPanic("Failed to step simulation")
    /\ UNCHANGED <<main_pc, overflow_checks, store, mutex, connv, model_heaterOn>>

\* component.get_output("temperature").expect(..)
GetTemperature ==
    /\ Running
    /\ sim_pc = "get_temperature"
    /\ \/ /\ temperature' \in Temperatures
          /\ sim_pc' = "get_heater_status"
          /\ UNCHANGED <<sim_panic, heater_on, heater_status>>
       \/ SimPanic("Failed to get temperature")
    /\ UNCHANGED <<main_pc, overflow_checks, store, mutex, connv, model_heaterOn>>

\* component.get_output("heaterStatus").expect(..)
GetHeaterStatus ==
    /\ Running
    /\ sim_pc = "get_heater_status"
    /\ \/ /\ heater_status' \in HeaterStatuses
          /\ sim_pc' = "publish"
          /\ UNCHANGED <<sim_panic, heater_on, temperature>>
       \/ SimPanic("Failed to get heater status")
    /\ UNCHANGED <<main_pc, overflow_checks, store, mutex, connv, model_heaterOn>>

\* component.get_output("temperature").expect(..) of a model with ModelOutputs.
GetPairedTemperature ==
    /\ Running
    /\ sim_pc = "get_temperature"
    /\ \/ /\ temperature' \in {o[1] : o \in ModelOutputs}
          /\ sim_pc' = "get_heater_status"
          /\ UNCHANGED <<sim_panic, heater_on, heater_status>>
       \/ SimPanic("Failed to get temperature")
    /\ UNCHANGED <<main_pc, overflow_checks, store, mutex, connv, model_heaterOn>>

\* component.get_output("heaterStatus").expect(..) of the same model state.
GetPairedHeaterStatus ==
    /\ Running
    /\ sim_pc = "get_heater_status"
    /\ \/ /\ heater_status' \in {o[2] : o \in {q \in ModelOutputs : q[1] = temperature}}
          /\ sim_pc' = "publish"
          /\ UNCHANGED <<sim_panic, heater_on, temperature>>
       \/ SimPanic("Failed to get heater status")
    /\ UNCHANGED <<main_pc, overflow_checks, store, mutex, connv, model_heaterOn>>

\* The second critical section opens: state.lock().unwrap().
PublishLock ==
    /\ Running
    /\ sim_pc = "publish"
    /\ LockFree
    /\ IF poisoned
       THEN /\ SimPanic("PoisonError")
            /\ UNCHANGED lock
       ELSE /\ lock' = SimLock
            /\ sim_pc' = "insert_temperature"
            /\ UNCHANGED <<sim_panic, heater_on, temperature, heater_status>>
    /\ UNCHANGED <<main_pc, overflow_checks, store, poisoned, connv, model_heaterOn>>

\* Mutant: the guard is dropped after the first insert.
InsertTemperatureDropsGuard ==
    /\ Running
    /\ sim_pc = "insert_temperature"
    /\ holding_registers' =
           MapInsert(holding_registers, temperature_address, ScaleToU16(temperature))
    /\ lock' = NoLock
    /\ sim_pc' = "insert_heater_state"
    /\ UNCHANGED <<main_pc, overflow_checks, input_registers, coils, poisoned, connv,
                   sim_panic, heater_on, temperature, heater_status, model_heaterOn>>

\* holding_registers.insert(temperature_address, (temperature * 100.0) as u16)
InsertTemperature ==
    /\ Running
    /\ sim_pc = "insert_temperature"
    /\ holding_registers' =
           MapInsert(holding_registers, temperature_address, ScaleToU16(temperature))
    /\ sim_pc' = "insert_heater_state"
    /\ UNCHANGED <<main_pc, overflow_checks, input_registers, coils, mutex, connv,
                   sim_panic, heater_on, temperature, heater_status, model_heaterOn>>

\* Mutant: the word is inserted only where the register is still unmapped.
InsertHeaterStateIfAbsent ==
    /\ Running
    /\ sim_pc = "insert_heater_state"
    /\ holding_registers' =
           IF heater_state_address \in DOMAIN holding_registers
           THEN holding_registers
           ELSE MapInsert(holding_registers, heater_state_address, ScaleToU16(heater_status))
    /\ lock' = IF lock = SimLock THEN NoLock ELSE lock
    /\ sim_pc' = "tick"
    /\ heater_on' = FALSE
    /\ temperature' = 0
    /\ heater_status' = 0
    /\ UNCHANGED <<main_pc, overflow_checks, input_registers, coils, poisoned, connv,
                   sim_panic, model_heaterOn>>

\* holding_registers.insert(heater_state_address, (heater_status * 100.0) as u16),
\* then the guard is dropped and the loop goes back to the ticker.
InsertHeaterState ==
    /\ Running
    /\ sim_pc = "insert_heater_state"
    /\ holding_registers' =
           MapInsert(holding_registers, heater_state_address, ScaleToU16(heater_status))
    /\ lock' = IF lock = SimLock THEN NoLock ELSE lock
    /\ sim_pc' = "tick"
    /\ heater_on' = FALSE
    /\ temperature' = 0
    /\ heater_status' = 0
    /\ UNCHANGED <<main_pc, overflow_checks, input_registers, coils, poisoned, connv,
                   sim_panic, model_heaterOn>>

(***************************************************************************)
(* The system                                                              *)
(***************************************************************************)
MainStep == SeedStore \/ SpawnSimulation \/ Bind

TransportStep == \E c \in Conns : Accept(c) \/ Disconnect(c)

RequestStep ==
    \E c \in Conns :
        \/ \E k \in ReadKinds, n \in Counts : \E a \in ReadAddrs(k) : CallRead(c, k, a, n)
        \/ \E a \in RegisterAddrs, v \in ReqVals : CallWriteSingleRegister(c, a, v)
        \/ \E a \in RegisterAddrs, vs \in WriteRuns : CallWriteMultipleRegisters(c, a, vs)
        \/ \E a \in CoilWriteAddrs, b \in BOOLEAN : CallWriteSingleCoil(c, a, b)
        \/ \E k \in UnsupportedKinds : CallUnsupported(c, k)
        \/ CallPoisoned(c)

HandlerStep ==
    \E c \in Conns :
        ReadStep(c) \/ ReadRespond(c) \/ WriteStep(c) \/ WriteRespond(c) \/ Return(c)

SimulationStep ==
    \/ CreateComponent
    \/ InitializeComponent
    \/ ReadHeaterCoil
    \/ SetBoolInput
    \/ StepComponent
    \/ GetTemperature
    \/ GetHeaterStatus
    \/ PublishLock
    \/ InsertTemperature
    \/ InsertHeaterState

Next == MainStep \/ TransportStep \/ RequestStep \/ HandlerStep \/ SimulationStep

Spec == Init /\ [][Next]_vars

(***************************************************************************)
(* The system with clients that leave the two sensor registers alone and   *)
(* a process model whose outputs go together.                              *)
(***************************************************************************)
SensorAddrs == {temperature_address, heater_state_address}

\* The start addresses from which a run of n registers meets no sensor register.
UndisturbedAddrs(n) ==
    {a \in RegisterAddrs : \A i \in 0..(n - 1) : WrappingAdd(a, i) \notin SensorAddrs}

RequestStepUndisturbed ==
    \E c \in Conns :
        \/ \E k \in ReadKinds, n \in Counts : \E a \in ReadAddrs(k) : CallRead(c, k, a, n)
        \/ \E a \in UndisturbedAddrs(1), v \in ReqVals : CallWriteSingleRegister(c, a, v)
        \/ \E vs \in WriteRuns : \E a \in UndisturbedAddrs(Len(vs)) :
               CallWriteMultipleRegisters(c, a, vs)
        \/ \E a \in CoilWriteAddrs, b \in BOOLEAN : CallWriteSingleCoil(c, a, b)
        \/ \E k \in UnsupportedKinds : CallUnsupported(c, k)
        \/ CallPoisoned(c)

SimulationStepPaired ==
    \/ CreateComponent
    \/ InitializeComponent
    \/ ReadHeaterCoil
    \/ SetBoolInput
    \/ StepComponent
    \/ GetPairedTemperature
    \/ GetPairedHeaterStatus
    \/ PublishLock
    \/ InsertTemperature
    \/ InsertHeaterState

NextUndisturbed ==
    MainStep \/ TransportStep \/ RequestStepUndisturbed \/ HandlerStep \/ SimulationStepPaired

SpecUndisturbed == Init /\ [][NextUndisturbed]_vars

(***************************************************************************)
(* Vocabulary of the properties                                            *)
(***************************************************************************)
Reading(c) == req[c].kind \in ReadKinds
\* The map of a kind of read among three given maps.
MapOf(k, hr, ir, cl) ==
    CASE k = "ReadHoldingRegisters" -> hr
      [] k = "ReadInputRegisters" -> ir
      [] k = "ReadCoils" -> cl
ServedMap(c) == ReadMap(req[c].kind)
ServedDefault(c) == ReadDefault(req[c].kind)

\* c holds a finished result of a request of kind k.
Built(c, k) == conn_pc[c] = "built" /\ req[c].kind = k

\* The tasks inside a critical section of the store.
InCritical ==
    {ConnLock(c) : c \in {d \in Conns :
        \/ conn_pc[d] \in {"read_loop", "write_loop"}
        \/ conn_pc[d] = "built" /\ req[d].kind \in SupportedKinds}}
    \cup (IF sim_pc \in {"insert_temperature", "insert_heater_state"}
          THEN {SimLock} ELSE {})

\* Steps of the handlers, as seen on the variables.
CommitsSingleRegister(c) ==
    conn_pc[c] = "idle" /\ conn_pc'[c] = "built" /\ req'[c].kind = "WriteSingleRegister"
CommitsSingleCoil(c) ==
    conn_pc[c] = "idle" /\ conn_pc'[c] = "built" /\ req'[c].kind = "WriteSingleCoil"
InsertsOfRun(c) ==
    conn_pc[c] = "write_loop" /\ conn_pc'[c] = "write_loop" /\ idx'[c] = idx[c] + 1
HandlerFails(c) ==
    conn_pc[c] \in {"read_loop", "write_loop", "built"} /\ conn_pc'[c] = "closed"

\* The step commits a write that names holding register a / coil a.
WritesRegister(a) ==
    \/ main_pc = "seed" /\ main_pc' = "spawn"
         /\ a \in {temperature_address, heater_state_address}
    \/ sim_pc = "insert_temperature" /\ sim_pc' # sim_pc /\ a = temperature_address
    \/ sim_pc = "insert_heater_state" /\ sim_pc' # sim_pc /\ a = heater_state_address
    \/ \E c \in Conns : CommitsSingleRegister(c) /\ req'[c].addr = a
    \/ \E c \in Conns : InsertsOfRun(c) /\ (req[c].addr + idx[c]) % 65536 = a
WritesCoil(a) ==
    \/ main_pc = "seed" /\ main_pc' = "spawn" /\ a = 0
    \/ \E c \in Conns : CommitsSingleCoil(c) /\ req'[c].addr = a

\* The step commits a client's write that names holding register a.
ClientWritesRegister(a) ==
    \/ \E c \in Conns : CommitsSingleRegister(c) /\ req'[c].addr = a
    \/ \E c \in Conns : InsertsOfRun(c) /\ (req[c].addr + idx[c]) % 65536 = a

ChangedIn(m, n, a) == a \in DOMAIN n /\ (a \notin DOMAIN m \/ m[a] # n[a])

(***************************************************************************)
(* C1  Default values: a read of an address that nothing has written       *)
(* (startup seed, protocol write, simulation tick) yields 0 for a register *)
(* and false for a coil, and the read completes without an error: the      *)
(* handler of a read that starts at a never-written address does not fail. *)
(***************************************************************************)
DefaultValueReads ==
    [][\A c \in Conns :
         /\ (conn_pc'[c] = "built" /\ req'[c].kind \in ReadKinds) =>
               \A j \in 1..Len(resp'[c].values) :
                   (req'[c].addr + j - 1 <= 65535
                    /\ req'[c].addr + j - 1 \notin
                         DOMAIN MapOf(req'[c].kind, holding_registers',
                                      input_registers', coils'))
                   => resp'[c].values[j] = (IF req'[c].kind = "ReadCoils" THEN FALSE ELSE 0)
         /\ (conn_pc[c] = "read_loop" /\ req[c].addr \notin DOMAIN ServedMap(c))
               => ~HandlerFails(c)]_vars

(***************************************************************************)
(* C2  Read after write: WriteSingleRegister(a, v) leaves v at a, the      *)
(* content of a changes only by a committed write that names a, and        *)
(* ReadHoldingRegisters(a, 1) returns the one-element list of the content  *)
(* of a; so the read returns [v] unless another write to a was committed   *)
(* in between.  The same for WriteSingleCoil and ReadCoils.                *)
(***************************************************************************)
ReadAfterWrite ==
    [][/\ \A c \in Conns :
            /\ CommitsSingleRegister(c) =>
                 /\ req'[c].addr \in DOMAIN holding_registers'
                 /\ holding_registers'[req'[c].addr] = req'[c].value
            /\ CommitsSingleCoil(c) =>
                 /\ req'[c].addr \in DOMAIN coils'
                 /\ coils'[req'[c].addr] = req'[c].value
            /\ (conn_pc'[c] = "built" /\ req'[c].kind = "ReadHoldingRegisters"
                  /\ req'[c].count = 1) =>
                 resp'[c].values =
                    << IF req'[c].addr \in DOMAIN holding_registers'
                       THEN holding_registers'[req'[c].addr] ELSE 0 >>
            /\ (conn_pc'[c] = "built" /\ req'[c].kind = "ReadCoils"
                  /\ req'[c].count = 1) =>
                 resp'[c].values =
                    << IF req'[c].addr \in DOMAIN coils'
                       THEN coils'[req'[c].addr] ELSE FALSE >>
       /\ DOMAIN holding_registers \subseteq DOMAIN holding_registers'
       /\ DOMAIN coils \subseteq DOMAIN coils'
       /\ \A a \in DOMAIN holding_registers' :
            ChangedIn(holding_registers, holding_registers', a) => WritesRegister(a)
       /\ \A a \in DOMAIN coils' :
            ChangedIn(coils, coils', a) => WritesCoil(a)]_vars

\* A read of one register returns the value a WriteSingleRegister left there,
\* and a read of coil 0 returns the true a WriteSingleCoil left there.
ReadAfterWriteSeen ==
    /\ \E c \in Conns :
         /\ Built(c, "ReadHoldingRegisters")
         /\ req[c].addr = U16Max /\ req[c].count = 1
         /\ resp[c].values = <<RunValue(2)>>
    /\ GetOr(coils, HeaterCoil, FALSE)

(***************************************************************************)
(* C3  A read returns exactly count values; the i-th is the content, at    *)
(* the moment of the read, of address addr + i of the map of its kind (0   *)
(* or false if nothing is mapped there), in ascending address order.  In   *)
(* particular ReadHoldingRegisters(temperature_address, 2) returns the     *)
(* temperature word and the heater-state word.                             *)
(***************************************************************************)
ReadReturnsRange ==
    \A c \in Conns :
        (conn_pc[c] = "built" /\ Reading(c)) =>
            /\ resp[c].kind = req[c].kind
            /\ Len(resp[c].values) = req[c].count
            /\ \A i \in 0..(req[c].count - 1) :
                 resp[c].values[i + 1] =
                    IF req[c].addr + i \in DOMAIN ServedMap(c)
                    THEN ServedMap(c)[req[c].addr + i] ELSE ServedDefault(c)
            /\ (req[c] = ReadRequest("ReadHoldingRegisters", temperature_address, 2)
                  /\ heater_state_address = temperature_address + 1) =>
                 resp[c].values = << holding_registers[temperature_address],
                                     holding_registers[heater_state_address] >>

\* The same for the reads whose range addr .. addr + count - 1 lies within
\* the 16-bit addresses.
ReadReturnsRangeInAddressSpace ==
    \A c \in Conns :
        (conn_pc[c] = "built" /\ Reading(c) /\ req[c].addr + req[c].count - 1 <= 65535) =>
            /\ resp[c].kind = req[c].kind
            /\ Len(resp[c].values) = req[c].count
            /\ \A i \in 0..(req[c].count - 1) :
                 resp[c].values[i + 1] =
                    IF req[c].addr + i \in DOMAIN ServedMap(c)
                    THEN ServedMap(c)[req[c].addr + i] ELSE ServedDefault(c)

(***************************************************************************)
(* C4  A read never fails: for every start address and count, also where   *)
(* addr + count runs past the last 16-bit address, the handler of a read   *)
(* completes with a response and does not end in a failure.                *)
(***************************************************************************)
ReadNeverFails ==
    [][\A c \in Conns : conn_pc[c] = "read_loop" => ~HandlerFails(c)]_vars

(***************************************************************************)
(* C5  Store operations are atomic with respect to each other: at most one *)
(* task is inside a critical section of the store; what a read has         *)
(* collected is, at every instant until it returns, the content of the     *)
(* store at that same instant (so it sees all or nothing of any other      *)
(* write); and the part of a WriteMultipleRegisters applied so far stays   *)
(* in the store as written until that write returns (no other writer gets  *)
(* in between).                                                            *)
(***************************************************************************)
AtomicStoreOperations ==
    /\ Cardinality(InCritical) <= 1
    /\ \A c \in Conns :
         (conn_pc[c] \in {"read_loop", "built"} /\ Reading(c)) =>
            \A j \in 1..Len(values[c]) :
                values[c][j] = GetOr(ServedMap(c), (req[c].addr + j - 1) % 65536,
                                     ServedDefault(c))
    /\ \A c \in Conns :
         (conn_pc[c] \in {"write_loop", "built"}
            /\ req[c].kind = "WriteMultipleRegisters") =>
            \A j \in 1..idx[c] :
                GetOr(holding_registers, (req[c].addr + j - 1) % 65536, 0)
                   = req[c].values[j]
    /\ sim_pc = "insert_heater_state" =>
         GetOr(holding_registers, temperature_address, 0) = ScaleToU16(temperature)

\* A two-register write is half applied while another connection and the
\* simulation driver wait for the store.
AtomicStoreOperationsSeen ==
    \E c \in Conns :
        /\ conn_pc[c] = "write_loop"
        /\ Len(req[c].values) = 2 /\ idx[c] = 1
        /\ \E d \in Conns \ {c} : conn_pc[d] = "idle"
        /\ sim_pc = "publish"

(***************************************************************************)
(* C6  A request outside the six supported kinds is answered with the      *)
(* IllegalFunction exception; receiving it and returning its answer leave  *)
(* the three maps (and the mutex) as they were, and after the answer the   *)
(* connection waits for its next request.                                  *)
(***************************************************************************)
UnsupportedIsIllegalFunction ==
    [][\A c \in Conns :
         /\ (conn_pc[c] = "idle" /\ req'[c].kind \notin SupportedKinds \cup {"None"}) =>
               /\ conn_pc'[c] = "built"
               /\ resp'[c] = [kind |-> "Exception", exception |-> "IllegalFunction"]
               /\ store' = store
               /\ mutex' = mutex
         /\ (conn_pc[c] = "built" /\ req[c].kind \notin SupportedKinds
               /\ conn_pc'[c] # conn_pc[c]) =>
               /\ conn_pc'[c] = "idle"
               /\ store' = store
               /\ mutex' = mutex]_vars

\* An unsupported request is answered while another connection is writing.
UnsupportedIsIllegalFunctionSeen ==
    \E c \in Conns :
        /\ conn_pc[c] = "built"
        /\ req[c].kind \in UnsupportedKinds
        /\ \E d \in Conns \ {c} : conn_pc[d] = "write_loop"

(***************************************************************************)
(* C7  Write responses echo the committed state: the result of a           *)
(* WriteSingleRegister / WriteSingleCoil carries its address and the       *)
(* content of the store there at the commit, and the result of a           *)
(* WriteMultipleRegisters carries its address and the number of registers  *)
(* upserted, which is the length of the values.                            *)
(***************************************************************************)
WriteResponsesEchoStore ==
    \A c \in Conns :
        conn_pc[c] = "built" =>
            /\ req[c].kind = "WriteSingleRegister" =>
                 /\ req[c].addr \in DOMAIN holding_registers
                 /\ resp[c] = [kind |-> "WriteSingleRegister", addr |-> req[c].addr,
                               value |-> holding_registers[req[c].addr]]
            /\ req[c].kind = "WriteSingleCoil" =>
                 /\ req[c].addr \in DOMAIN coils
                 /\ resp[c] = [kind |-> "WriteSingleCoil", addr |-> req[c].addr,
                               value |-> coils[req[c].addr]]
            /\ req[c].kind = "WriteMultipleRegisters" =>
                 /\ resp[c] = [kind |-> "WriteMultipleRegisters", addr |-> req[c].addr,
                               count |-> Len(req[c].values)]
                 /\ idx[c] = resp[c].count
                 /\ Cardinality({a \in DOMAIN holding_registers :
                        \E j \in 1..Len(req[c].values) :
                            /\ a = (req[c].addr + j - 1) % 65536
                            /\ holding_registers[a] = req[c].values[j]}) = resp[c].count

\* The result of a two-register write at the temperature address is built
\* while the driver waits to publish there.
WriteResponsesEchoStoreSeen ==
    \E c \in Conns :
        /\ Built(c, "WriteMultipleRegisters")
        /\ req[c].addr = temperature_address
        /\ resp[c].count = 2
        /\ sim_pc = "publish"

(***************************************************************************)
(* C8  Coil to status: a committed WriteSingleCoil(0, b) leaves b in coil  *)
(* 0 until another write to coil 0; a tick takes the content of coil 0 at  *)
(* its coil read as the heaterOn input of the model and keeps it for the   *)
(* tick; and if the model reports heaterStatus = 1 for heaterOn true and 0 *)
(* for false, the tick's publication leaves 100 respectively 0 in the      *)
(* heater-state register.                                                  *)
(***************************************************************************)
HeaterStateFollowsCoil ==
    [][/\ \A c \in Conns :
            (CommitsSingleCoil(c) /\ req'[c].addr = 0) => coils'[0] = req'[c].value
       /\ ChangedIn(coils, coils', 0) => WritesCoil(0)
       /\ (sim_pc = "tick" /\ sim_pc' = "set_bool_input") =>
            heater_on' = (IF 0 \in DOMAIN coils THEN coils[0] ELSE FALSE)
       /\ (sim_pc = "set_bool_input" /\ sim_pc' = "step") =>
            (heater_on' = heater_on /\ model_heaterOn' = heater_on)
       /\ (sim_pc \in {"step", "get_temperature", "get_heater_status", "publish",
                       "insert_temperature"} /\ sim_pc' # "panicked") =>
            (heater_on' = heater_on /\ model_heaterOn' = model_heaterOn)
       /\ (sim_pc = "insert_heater_state" /\ sim_pc' = "tick"
             /\ heater_status = (IF model_heaterOn THEN 1000 ELSE 0)) =>
            /\ model_heaterOn = heater_on
            /\ holding_registers'[heater_state_address] = (IF heater_on THEN 100 ELSE 0)
      ]_vars

\* Coil 0 holds true, the tick that read it has published, and the
\* heater-state register holds 100.
HeaterStateFollowsCoilSeen ==
    /\ sim_pc = "tick"
    /\ model_heaterOn
    /\ GetOr(coils, HeaterCoil, FALSE)
    /\ GetOr(holding_registers, heater_state_address, 0) = 100

(***************************************************************************)
(* C9  A failure of the process model stops the driver: the failing call   *)
(* ends the task at once, the tick it happens in has written nothing to    *)
(* the store, the call is not retried, and the stopped driver runs no      *)
(* further tick and never writes the store again.                          *)
(***************************************************************************)
ModelFailureStopsDriver ==
    [][/\ sim_panic' # sim_panic =>
            /\ sim_pc' = "panicked"
            /\ sim_pc \notin {"insert_temperature", "insert_heater_state", "panicked"}
            /\ store' = store
       /\ (sim_pc' # sim_pc
             /\ sim_pc \notin {"insert_temperature", "insert_heater_state"}) =>
            store' = store
       /\ sim_panic' # "none" => sim_pc' = "panicked"
       /\ sim_pc = "panicked" => (simv' = simv /\ lock' # SimLock)]_vars

\* The driver has stopped on a failed step and a connection writes the
\* temperature register.
ModelFailureStopsDriverSeen ==
    /\ sim_pc = "panicked"
    /\ sim_panic = "Failed to step simulation"
    /\ \E c \in Conns : Built(c, "WriteSingleRegister") /\ req[c].addr = temperature_address

(***************************************************************************)
(* C10  A model error terminates the whole service: once the driver has    *)
(* stopped on a failure of the process model, no connection starts         *)
(* handling a request any more.                                            *)
(***************************************************************************)
ModelFailureStopsService ==
    [][(sim_pc = "panicked" /\ sim_panic # "PoisonError") =>
          \A c \in Conns :
              ~(conn_pc[c] = "idle"
                  /\ conn_pc'[c] \in {"read_loop", "write_loop", "built"})]_vars

(***************************************************************************)
(* C11  Scaling convention: for every temperature T the process model      *)
(* reports with 0 <= T <= 655.35 (on the grid of thousandths) the word a   *)
(* tick stores at the temperature address is round(T * 100), the nearest   *)
(* integer and not the truncated one; likewise the word stored at the      *)
(* heater-state address is round(heaterStatus * 100) for heaterStatus in   *)
(* [0, 1].                                                                 *)
(***************************************************************************)
ScalingConvention ==
    [][/\ (sim_pc = "insert_temperature" /\ sim_pc' = "insert_heater_state"
             /\ 0 <= temperature /\ temperature <= 655350) =>
            holding_registers'[temperature_address] = (temperature + 5) \div 10
       /\ (sim_pc = "insert_heater_state" /\ sim_pc' = "tick"
             /\ 0 <= heater_status /\ heater_status <= 1000) =>
            holding_registers'[heater_state_address] = (heater_status + 5) \div 10]_vars

HeaterStateRange ==
    /\ GetOr(holding_registers, heater_state_address, 0) \in {0, 100}
    /\ [][/\ (/\ GetOr(holding_registers, heater_state_address, 0) \in {0, 100}
              /\ ~ClientWritesRegister(heater_state_address)
              /\ (sim_pc = "insert_heater_state" => heater_status \in {0, 1000}))
             => GetOr(holding_registers', heater_state_address, 0) \in {0, 100}
          /\ \A c \in Conns :
               (conn_pc'[c] = "built"
                  /\ req'[c] = ReadRequest("ReadHoldingRegisters", temperature_address, 2))
               => resp'[c].values[2] = GetOr(holding_registers', heater_state_address, 0)]_vars

\* A tick has published the heaterStatus 1 and a read has returned 100 for it.
HeaterStateRangeSeen ==
    \E c \in Conns :
        /\ Built(c, "ReadHoldingRegisters")
        /\ req[c].addr = temperature_address /\ req[c].count = 2
        /\ resp[c].values[2] = 100
        /\ holding_registers[heater_state_address] = 100

(***************************************************************************)
(* C14  Errors are local to one connection: whatever has happened on the   *)
(* other connections (a transport error, a request whose handling          *)
(* failed), a connection that waits for a request while the mutex is free  *)
(* can have a read of the temperature register handled, and the driver     *)
(* never stops on a failure that is not one of its process model.          *)
(***************************************************************************)
ErrorsAreLocal ==
    /\ \A c \in Conns :
         (Running /\ conn_pc[c] = "idle" /\ lock = NoLock) =>
             ENABLED CallRead(c, "ReadHoldingRegisters", temperature_address, 1)
    /\ sim_panic # "PoisonError"

(***************************************************************************)
(* C15  The driver does not hold the store lock during the process-model   *)
(* step: it owns the mutex only inside the publication of its two output   *)
(* registers (the coil read is a critical section of its own that is over  *)
(* before set_bool_input); from set_bool_input to get_output the mutex is  *)
(* not the driver's, and a connection waiting for a request can have a     *)
(* write of coil 0 handled as soon as no other handler holds the (sound)   *)
(* mutex.                                                                  *)
(***************************************************************************)
DriverLockFreeDuringStep ==
    /\ lock = SimLock => sim_pc \in {"insert_temperature", "insert_heater_state"}
    /\ sim_pc \in {"set_bool_input", "step", "get_temperature", "get_heater_status",
                   "publish"} =>
         \A c \in Conns :
             (conn_pc[c] = "idle" /\ ~poisoned /\ \A d \in Conns : lock # ConnLock(d)) =>
                 ENABLED CallWriteSingleCoil(c, HeaterCoil, TRUE)

\* While the driver is in step, a WriteSingleCoil that arrived after the
\* tick's coil read has its result.
DriverLockFreeDuringStepSeen ==
    /\ sim_pc = "step"
    /\ ~heater_on
    /\ \E c \in Conns : Built(c, "WriteSingleCoil") /\ coils[HeaterCoil]

(***************************************************************************)
(* C16  The protocol service never blocks while holding a lock: a handler  *)
(* takes the mutex only on entry, from the state where it waits for a      *)
(* request, so at most once per request; while it owns the mutex its next  *)
(* step (a loop iteration, building the result, returning) is enabled, it  *)
(* waits for nothing; and a connection that waits for its transport or is  *)
(* closed does not own the mutex, the guard is gone when the response is   *)
(* returned.                                                               *)
(***************************************************************************)
HandlerNeverBlocksLocked ==
    /\ [](\A c \in Conns :
            /\ conn_pc[c] \in {"idle", "closed"} => lock # ConnLock(c)
            /\ lock = ConnLock(c) =>
                 ENABLED (ReadStep(c) \/ ReadRespond(c) \/ WriteStep(c)
                            \/ WriteRespond(c) \/ Return(c)))
    /\ [][\A c \in Conns :
            (lock # ConnLock(c) /\ lock' = ConnLock(c)) => conn_pc[c] = "idle"]_vars

\* A handler that wrote register 65535 under the mutex has returned: the
\* mutex is free and every connection waits for its transport or is closed.
HandlerNeverBlocksLockedSeen ==
    /\ lock = NoLock
    /\ U16Max \in DOMAIN holding_registers
    /\ \A c \in Conns : conn_pc[c] \in {"idle", "closed"}
    /\ \E c \in Conns : conn_pc[c] = "idle"

(***************************************************************************)
(* C17  Tick ordering: the driver moves through a tick in the order read   *)
(* coil 0, set heaterOn, step, get temperature, get heaterStatus, write    *)
(* the temperature register, write the heater-state register, and only     *)
(* then starts the next tick (or it stops on a failure).  The input of the *)
(* model is the coil value read at the start of the tick, which no coil    *)
(* write changes during the tick; the outputs are taken after the step of  *)
(* the same tick and are the ones the two writes encode, with the          *)
(* driver's conversion to a word (whose rounding is the subject of C11).   *)
(***************************************************************************)
TickOrder ==
    { <<"tick", "set_bool_input">>, <<"set_bool_input", "step">>,
      <<"step", "get_temperature">>, <<"get_temperature", "get_heater_status">>,
      <<"get_heater_status", "publish">>, <<"publish", "insert_temperature">>,
      <<"insert_temperature", "insert_heater_state">>,
      <<"insert_heater_state", "tick">> }

TickOrdering ==
    [][/\ (sim_pc' # sim_pc /\ sim_pc \notin {"unspawned", "new", "initialize"}) =>
            (<<sim_pc, sim_pc'>> \in TickOrder \/ sim_pc' = "panicked")
       /\ <<sim_pc, sim_pc'>> = <<"tick", "set_bool_input">> =>
            heater_on' = GetOr(coils, 0, FALSE)
       /\ heater_on' # heater_on => (sim_pc = "tick" \/ sim_pc' \in {"tick", "panicked"})
       /\ <<sim_pc, sim_pc'>> = <<"set_bool_input", "step">> => model_heaterOn' = heater_on
       /\ model_heaterOn' # model_heaterOn => sim_pc = "set_bool_input"
       /\ temperature' # temperature =>
            (sim_pc = "get_temperature" \/ sim_pc' \in {"tick", "panicked"})
       /\ heater_status' # heater_status =>
            (sim_pc = "get_heater_status" \/ sim_pc' \in {"tick", "panicked"})
       /\ <<sim_pc, sim_pc'>> = <<"get_temperature", "get_heater_status">> =>
            temperature' \in Temperatures
       /\ <<sim_pc, sim_pc'>> = <<"get_heater_status", "publish">> =>
            heater_status' \in HeaterStatuses
       /\ <<sim_pc, sim_pc'>> = <<"insert_temperature", "insert_heater_state">> =>
            holding_registers'[temperature_address] = ScaleToU16(temperature)
       /\ <<sim_pc, sim_pc'>> = <<"insert_heater_state", "tick">> =>
            /\ holding_registers'[temperature_address] = ScaleToU16(temperature)
            /\ holding_registers'[heater_state_address] = ScaleToU16(heater_status)]_vars

\* A tick whose coil read gave false is between its two register writes:
\* its temperature is stored, and the coil write that arrived during the
\* tick has not reached the model.
TickOrderingSeen ==
    /\ sim_pc = "insert_heater_state"
    /\ holding_registers[temperature_address] = ScaleToU16(293156)
    /\ heater_status = 1000
    /\ ~heater_on
    /\ ~model_heaterOn
    /\ GetOr(coils, 0, FALSE)

(***************************************************************************)
(* C18  Frame of a tick and of the protocol service: a step of the driver  *)
(* changes at most the holding registers at temperature_address and        *)
(* heater_state_address, no coil and no input register, and what it takes  *)
(* from the store is coil 0; a step of a read request changes nothing in   *)
(* the store; WriteSingleCoil changes only the addressed coil;             *)
(* WriteSingleRegister changes only the addressed holding register, and a  *)
(* step of WriteMultipleRegisters(addr, values) only holding registers     *)
(* among addr .. addr + len(values) - 1.                                   *)
(***************************************************************************)
FrameEffects ==
    [][/\ simv' # simv =>
            /\ coils' = coils
            /\ input_registers' = input_registers
            /\ \A a \in DOMAIN holding_registers' :
                 ChangedIn(holding_registers, holding_registers', a) =>
                     a \in {temperature_address, heater_state_address}
            /\ <<sim_pc, sim_pc'>> = <<"tick", "set_bool_input">> =>
                 heater_on' = GetOr(coils, 0, FALSE)
       /\ \A c \in Conns :
            /\ (conn_pc[c] = "read_loop" \/ conn_pc'[c] = "read_loop") => store' = store
            /\ CommitsSingleCoil(c) =>
                 /\ holding_registers' = holding_registers
                 /\ input_registers' = input_registers
                 /\ \A a \in DOMAIN coils' :
                      ChangedIn(coils, coils', a) => a = req'[c].addr
            /\ CommitsSingleRegister(c) =>
                 /\ coils' = coils
                 /\ input_registers' = input_registers
                 /\ \A a \in DOMAIN holding_registers' :
                      ChangedIn(holding_registers, holding_registers', a) =>
                          a = req'[c].addr
            /\ (conn_pc[c] = "write_loop" \/ conn_pc'[c] = "write_loop") =>
                 /\ coils' = coils
                 /\ input_registers' = input_registers
                 /\ \A a \in DOMAIN holding_registers' :
                      ChangedIn(holding_registers, holding_registers', a) =>
                          /\ conn_pc[c] = "write_loop"
                          /\ req[c].addr <= a
                          /\ a < req[c].addr + Len(req[c].values)]_vars

(***************************************************************************)
(* C19  The driver publishes both outputs of a tick as one atomic unit: as *)
(* long as no client writes the temperature or the heater-state address,   *)
(* the pair a ReadHoldingRegisters(temperature_address, 2) returns is the  *)
(* seed pair or the pair of words of one tick's outputs, never the         *)
(* temperature of one tick with the heater state of another.               *)
(***************************************************************************)
PublishedPairs ==
    {<<SeedTemperature, 0>>} \cup {<<ScaleToU16(o[1]), ScaleToU16(o[2])>> : o \in ModelOutputs}

AtomicPublication ==
    \A c \in Conns :
        (conn_pc[c] = "built"
           /\ req[c] = ReadRequest("ReadHoldingRegisters", temperature_address, 2)) =>
            <<resp[c].values[1], resp[c].values[2]>> \in PublishedPairs

\* A read of both registers has returned the pair of one tick, which
\* differs from the seed in both words, while the driver stands before its
\* next publication with other outputs.
AtomicPublicationSeen ==
    /\ sim_pc = "publish"
    /\ temperature = 273150
    /\ \E c \in Conns :
         /\ conn_pc[c] = "built"
         /\ req[c] = ReadRequest("ReadHoldingRegisters", temperature_address, 2)
         /\ resp[c].values = <<ScaleToU16(293156), 100>>

(***************************************************************************)
(* C20  Client writes to the sensor registers do not survive a tick: when  *)
(* a tick ends its publication both registers hold the words of that       *)
(* tick's outputs, whatever clients had written there, and no client write *)
(* falls between the two writes of a publication.  A client's write to a   *)
(* sensor register changes nothing of the driver or of the model's input,  *)
(* which is only ever set to the coil value the driver read.               *)
(***************************************************************************)
ClientWritesDoNotSurvive ==
    [][/\ <<sim_pc, sim_pc'>> = <<"insert_heater_state", "tick">> =>
            /\ holding_registers'[temperature_address] = ScaleToU16(temperature)
            /\ holding_registers'[heater_state_address] = ScaleToU16(heater_status)
       /\ \A a \in SensorAddrs :
            ClientWritesRegister(a) =>
                /\ simv' = simv
                /\ sim_pc \notin {"insert_temperature", "insert_heater_state"}
       /\ model_heaterOn' # model_heaterOn => model_heaterOn' = heater_on
       /\ heater_on' # heater_on =>
            (heater_on' = GetOr(coils, HeaterCoil, FALSE) \/ sim_pc' \in {"tick", "panicked"})]_vars

\* The driver is between its two writes: the temperature register holds the
\* tick's word again, the heater-state register still the word a client
\* wrote with WriteMultipleRegisters(temperature_address, [7, 9]).
ClientWritesDoNotSurviveSeen ==
    /\ sim_pc = "insert_heater_state"
    /\ holding_registers[temperature_address] = ScaleToU16(temperature)
    /\ holding_registers[heater_state_address] = RunValue(2)
    /\ heater_status = 1000

====
